---- MODULE Spec2Model ----
(***************************************************************************)
(* Model of src/app.py: the iterative binary_search (lines 46-57), and the *)
(* "Run Search" handler of run_app (lines 125-145) with the list           *)
(* generation, the time.time() readings around the search and the row      *)
(* store_search_result inserts into the searches table.                    *)
(*                                                                         *)
(* Three specifications share the definitions:                             *)
(*   SpecSearch  binary_search stepped through its loop, on every bounded  *)
(*               sequence (sorted or not) and target;                      *)
(*   SpecRepeat  the same loop called again and again, the first call's    *)
(*               outcome remembered;                                       *)
(*   Spec        the Run Search handler, pressed up to MaxRuns times.      *)
(* Python indexes from 0, TLA+ sequences from 1: arr[i] is Elem(arr, i).   *)
(***************************************************************************)
EXTENDS Integers, Sequences, FiniteSets

VARIABLES
    pc,          \* where the modelled code stands
    arr,         \* binary_search: parameter arr
    target,      \* binary_search: parameter target; run_app: the sidebar's target
    low,         \* binary_search: local low
    high,        \* binary_search: local high
    mid,         \* binary_search: local mid (-1 before the first iteration)
    ret,         \* binary_search: the value returned
    iters,       \* ghost: loop iterations of the current call (each reads arr[mid])
    first,       \* ghost: <<>> or <<the first completed call's arr, target, ret>>
    list_size,   \* run_app: the sidebar slider's value
    sorted_list, \* run_app: local sorted_list
    index,       \* run_app: local index
    start_time,  \* run_app: local start_time
    end_time,    \* run_app: local end_time
    exec_time,   \* run_app: local exec_time
    conn,        \* run_app: the connection init_db opened, "open" or "closed"
    store,       \* the rows of table searches, in insertion (id) order
    nsearch      \* ghost: how many times run_app has invoked binary_search

vars == <<pc, arr, target, low, high, mid, ret, iters, first, list_size,
          sorted_list, index, start_time, end_time, exec_time, conn, store,
          nsearch>>

searchVars == <<arr, target, low, high, mid, ret, iters, first>>
appVars == <<list_size, sorted_list, index, start_time, end_time, exec_time,
             conn, store, nsearch>>

----------------------------------------------------------------------------
(* Bounds of the model.                                                    *)

\* longest sequence handed to binary_search in SpecSearch
MaxLen == 5
\* the elements and targets of SpecSearch are 0..MaxVal
MaxVal == 2
\* the same two bounds for SpecRepeat, which remembers a whole earlier call
RepeatMaxLen == 2
RepeatMaxVal == 1
\* the sidebar slider, scaled down from st.sidebar.slider(.., 100, 5000, 1000, step=100)
SliderMin == 1
SliderMax == 3
SliderStep == 2
\* time.time() returns one of 0..MaxClock
MaxClock == 1
\* Run Search is pressed at most MaxRuns times
MaxRuns == 2

----------------------------------------------------------------------------
(* binary_search, lines 46-57.                                             *)

\* whether arr[i] is an element: Python raises IndexError outside -len..len-1
InRange(a, i) == -Len(a) <= i /\ i < Len(a)

\* arr[i] with Python's 0-based index, a negative i counting from the end
Elem(a, i) == IF i >= 0 THEN a[i + 1] ELSE a[Len(a) + i + 1]

\* mutant of NotFound: the insertion point returned in place of -1
NotFoundAsLow == low

\* the value of "return -1"
NotFound == -1

\* mutant of BSEntry: low keeps what the previous call left in it
BSEntryStale(a) == [low |-> low, high |-> Len(a) - 1]

\* line 48: low, high = 0, len(arr) - 1
BSEntry(a) == [low |-> 0, high |-> Len(a) - 1]

\* mutant of BSContinue: "while low < high"
BSContinueStrict(lo, hi) == lo < hi

\* line 49: the loop test
BSContinue(lo, hi) == lo <= hi

\* mutant of BSMid: the midpoint taken one too far right
BSMidUp(lo, hi) == (lo + hi) \div 2 + 1

\* line 50: mid = (low + high) // 2
BSMid(lo, hi) == (lo + hi) \div 2

\* mutant of BSIter: the two narrowing branches swapped
BSIterInverted(a, t, lo, hi, m) ==
    IF ~InRange(a, m)
    THEN [kind |-> "raise", low |-> lo, high |-> hi]
    ELSE IF Elem(a, m) = t
    THEN [kind |-> "return", low |-> lo, high |-> hi]
    ELSE IF Elem(a, m) < t
    THEN [kind |-> "narrow", low |-> lo, high |-> m - 1]
    ELSE [kind |-> "narrow", low |-> m + 1, high |-> hi]

\* mutant of BSIter: "low = mid" in place of "low = mid + 1"
BSIterNoAdvance(a, t, lo, hi, m) ==
    IF ~InRange(a, m)
    THEN [kind |-> "raise", low |-> lo, high |-> hi]
    ELSE IF Elem(a, m) = t
    THEN [kind |-> "return", low |-> lo, high |-> hi]
    ELSE IF Elem(a, m) > t
    THEN [kind |-> "narrow", low |-> lo, high |-> m - 1]
    ELSE [kind |-> "narrow", low |-> m, high |-> hi]

\* lines 51-56: one iteration's comparison, given the mid just computed: it
\* returns mid, narrows the interval, or arr[mid] raises
BSIter(a, t, lo, hi, m) ==
    IF ~InRange(a, m)
    THEN [kind |-> "raise", low |-> lo, high |-> hi]
    ELSE IF Elem(a, m) = t
    THEN [kind |-> "return", low |-> lo, high |-> hi]
    ELSE IF Elem(a, m) > t
    THEN [kind |-> "narrow", low |-> lo, high |-> m - 1]
    ELSE [kind |-> "narrow", low |-> m + 1, high |-> hi]

\* lines 49-57: the loop run to its end: the value returned, or raised
RECURSIVE BSRun(_, _, _, _)
BSRun(a, t, lo, hi) ==
    IF BSContinue(lo, hi)
    THEN LET m == BSMid(lo, hi)
             r == BSIter(a, t, lo, hi, m)
         IN  IF r.kind = "raise" THEN [raised |-> TRUE, ret |-> NotFound]
             ELSE IF r.kind = "return" THEN [raised |-> FALSE, ret |-> m]
             ELSE BSRun(a, t, r.low, r.high)
    ELSE [raised |-> FALSE, ret |-> NotFound]

\* lines 46-57: the call as run_app sees it
binary_search(a, t) == BSRun(a, t, BSEntry(a).low, BSEntry(a).high)

\* the call: line 48
BSCall ==
    /\ pc = "call"
    /\ low' = BSEntry(arr).low
    /\ high' = BSEntry(arr).high
    /\ iters' = 0
    /\ pc' = "loop"
    /\ UNCHANGED <<arr, target, mid, ret, first>>
    /\ UNCHANGED appVars

\* one iteration of the loop: lines 49-56
BSIterate ==
    /\ pc = "loop"
    /\ BSContinue(low, high)
    /\ LET m == BSMid(low, high)
           r == BSIter(arr, target, low, high, m)
       IN  /\ mid' = m
           /\ low' = r.low
           /\ high' = r.high
           /\ iters' = iters + 1
           /\ ret' = IF r.kind = "return" THEN m ELSE ret
           /\ pc' = IF r.kind = "return" THEN "ret"
                    ELSE IF r.kind = "raise" THEN "raised"
                    ELSE "loop"
    /\ UNCHANGED <<arr, target, first>>
    /\ UNCHANGED appVars

\* the loop test fails: lines 49, 57
BSExit ==
    /\ pc = "loop"
    /\ ~BSContinue(low, high)
    /\ ret' = NotFound
    /\ pc' = "ret"
    /\ UNCHANGED <<arr, target, low, high, mid, iters, first>>
    /\ UNCHANGED appVars

----------------------------------------------------------------------------
(* The callers of binary_search in SpecSearch and SpecRepeat.              *)

SeqsUpTo(S, n) == UNION {[1..k -> S] : k \in 0..n}

\* every variable of run_app before Run Search is pressed
AppIdle ==
    /\ sorted_list = <<>>
    /\ index = -1
    /\ start_time = 0
    /\ end_time = 0
    /\ exec_time = 0
    /\ conn = "closed"
    /\ store = <<>>
    /\ nsearch = 0

\* binary_search's locals before the call
SearchIdle ==
    /\ low = 0
    /\ high = -1
    /\ mid = -1
    /\ ret = -1
    /\ iters = 0
    /\ first = <<>>

\* the lists and targets of the specification's scenarios 1, 2 and 4
ScenarioInputs ==
    {<<(<<1, 3, 5, 7, 9>>), 5>>, <<(<<1, 3, 5, 7, 9>>), 4>>, <<(<<10>>), 10>>}

\* the arguments of a call: every sequence within the bounds, sorted or not,
\* with every target within them, and the scenarios
SearchInputs(maxVal, maxLen) ==
    (SeqsUpTo(0..maxVal, maxLen) \X (0..maxVal)) \cup ScenarioInputs

InitSearch ==
    /\ pc = "call"
    /\ \E inp \in SearchInputs(MaxVal, MaxLen) : arr = inp[1] /\ target = inp[2]
    /\ SearchIdle
    /\ list_size = 0
    /\ AppIdle

NextSearch == BSCall \/ BSIterate \/ BSExit

SpecSearch == InitSearch /\ [][NextSearch]_vars

InitRepeat ==
    /\ pc = "call"
    /\ \E inp \in SearchInputs(RepeatMaxVal, RepeatMaxLen) :
           arr = inp[1] /\ target = inp[2]
    /\ SearchIdle
    /\ list_size = 0
    /\ AppIdle

\* a call has returned and binary_search is called again, with any arguments;
\* the locals of the finished call are whatever it left behind
CallAgain ==
    /\ pc = "ret"
    /\ first' = IF first = <<>> THEN <<[arr |-> arr, target |-> target, ret |-> ret]>>
                ELSE first
    /\ \E inp \in SearchInputs(RepeatMaxVal, RepeatMaxLen) :
           arr' = inp[1] /\ target' = inp[2]
    /\ pc' = "call"
    /\ UNCHANGED <<low, high, mid, ret, iters>>
    /\ UNCHANGED appVars

NextRepeat == BSCall \/ BSIterate \/ BSExit \/ CallAgain

SpecRepeat == InitRepeat /\ [][NextRepeat]_vars

----------------------------------------------------------------------------
(* run_app's Run Search handler, lines 125-145, and what it calls.         *)

\* line 130: the multiplier of range(-3 * list_size, 3 * list_size)
RangeMult == 3

\* line 65: the values the slider can hold
SliderSizes == {n \in SliderMin..SliderMax : (n - SliderMin) % SliderStep = 0}

\* line 66: random.randint(-3 * list_size, 3 * list_size), both ends included
TargetInputs(n) == (-(RangeMult * n))..(RangeMult * n)

\* line 130: range(-3 * list_size, 3 * list_size), the upper end excluded
SampleRange(n) == (-(RangeMult * n))..(RangeMult * n - 1)

\* line 130: random.sample(population, k): k distinct picks, in any order
RandomSample(population, k) ==
    {s \in [1..k -> population] : \A i, j \in 1..k : i # j => s[i] # s[j]}

\* sorted(): s with x put before its first element not less than x
RECURSIVE Insert(_, _)
Insert(s, x) ==
    IF s = <<>> THEN <<x>>
    ELSE IF x <= Head(s) THEN <<x>> \o s
    ELSE <<Head(s)>> \o Insert(Tail(s), x)

\* mutant of sorted: the sample left in the order it was drawn
NotSorted(s) == s

\* line 130: sorted(iterable), ascending
RECURSIVE sorted(_)
sorted(s) == IF s = <<>> THEN <<>> ELSE Insert(sorted(Tail(s)), Head(s))

\* lines 133, 135: what time.time() can return. It reads the system's wall
\* clock, which can be set back between two readings.
ClockReadings == 0..MaxClock

\* mutant of store_search_result: the new row replaces the table's last row
StoreOverLast(rows, method, size, t, result_index, time) ==
    IF rows = <<>>
    THEN <<[method |-> method, list_size |-> size, target |-> t,
            result_index |-> result_index, exec_time |-> time]>>
    ELSE [rows EXCEPT ![Len(rows)] =
              [method |-> method, list_size |-> size, target |-> t,
               result_index |-> result_index, exec_time |-> time]]

\* mutant of store_search_result: target and result_index bound to each
\* other's column
StoreColumnsSwapped(rows, method, size, t, result_index, time) ==
    Append(rows, [method |-> method, list_size |-> size, target |-> result_index,
                  result_index |-> t, exec_time |-> time])

\* lines 30-37: the row INSERTed, after the rows already in the table
\* (the timestamp column, which nothing here reads, is left out)
store_search_result(rows, method, size, t, result_index, time) ==
    Append(rows, [method |-> method, list_size |-> size, target |-> t,
                  result_index |-> result_index, exec_time |-> time])

\* lines 125-130: the button is pressed, init_db opens the connection and
\* the list is generated
RunSearchClick ==
    /\ pc = "idle"
    /\ nsearch < MaxRuns
    /\ conn' = "open"
    /\ \E sample \in RandomSample(SampleRange(list_size), list_size) :
           sorted_list' = sorted(sample)
    /\ pc' = "generated"
    /\ UNCHANGED <<list_size, index, start_time, end_time, exec_time, store, nsearch>>
    /\ UNCHANGED searchVars

\* lines 133-136: the search between two readings of the clock
TimedSearch ==
    /\ pc = "generated"
    /\ \E t0 \in ClockReadings, t1 \in ClockReadings :
           LET r == binary_search(sorted_list, target)
           IN  /\ start_time' = t0
               /\ IF r.raised
                  THEN /\ pc' = "raised"
                       /\ UNCHANGED <<index, end_time, exec_time>>
                  ELSE /\ index' = r.ret
                       /\ end_time' = t1
                       /\ exec_time' = t1 - t0
                       /\ pc' = "measured"
    /\ nsearch' = nsearch + 1
    /\ UNCHANGED <<list_size, sorted_list, conn, store>>
    /\ UNCHANGED searchVars

\* lines 139-145: the row is stored, the result shown, the connection closed;
\* the handler's locals end with it
StoreAndShow ==
    /\ pc = "measured"
    /\ conn = "open"
    /\ store' = store_search_result(store, "Binary Search", list_size, target,
                                    index, exec_time)
    /\ conn' = "closed"
    /\ sorted_list' = <<>>
    /\ index' = -1
    /\ start_time' = 0
    /\ end_time' = 0
    /\ exec_time' = 0
    /\ pc' = "idle"
    /\ UNCHANGED <<list_size, nsearch>>
    /\ UNCHANGED searchVars

\* lines 62-68, 122: the sidebar's two values are the inputs of a behaviour:
\* the slider holds one of its sizes, the number input an integer of the range
\* its default is drawn from, and every press of the button reads these two
Init ==
    /\ pc = "idle"
    /\ list_size \in SliderSizes
    /\ target \in TargetInputs(list_size)
    /\ arr = <<>>
    /\ SearchIdle
    /\ AppIdle

Next == RunSearchClick \/ TimedSearch \/ StoreAndShow

Spec == Init /\ [][Next]_vars

----------------------------------------------------------------------------
(* Vocabulary of the properties.                                           *)

\* a is sorted ascending (equal neighbours allowed)
IsSorted(a) == \A i, j \in 1..Len(a) : i < j => a[i] <= a[j]

\* a is sorted ascending with no duplicates
StrictlyIncreasing(a) == \A i, j \in 1..Len(a) : i < j => a[i] < a[j]

\* the 0-based positions of a that hold t
Positions(a, t) == {i \in 0..(Len(a) - 1) : a[i + 1] = t}

\* the loop's interval width, high - low + 1
Width(lo, hi) == hi - lo + 1

\* binary_search has returned
Returned == pc = "ret"

\* the linear strategy of the specification, section 4.2: the first position
\* of 0..len-1 that holds the target, or -1
RECURSIVE LinearFrom(_, _, _)
LinearFrom(a, t, i) ==
    IF i >= Len(a) THEN -1
    ELSE IF Elem(a, i) = t THEN i
    ELSE LinearFrom(a, t, i + 1)

linear_search(a, t) == LinearFrom(a, t, 0)

----------------------------------------------------------------------------
(* Properties of binary_search, checked under SpecSearch.                  *)

\* C1: when arr is sorted ascending and holds target exactly once,
\* binary_search returns the index of that one occurrence, which is the index
\* a first-match linear scan returns; [1,3,5,7,9] with 5 gives 2 and [10]
\* with 10 gives 0.
C1_FindsTheOnlyOccurrence ==
    /\ (Returned /\ IsSorted(arr) /\ Cardinality(Positions(arr, target)) = 1)
           => /\ ret \in Positions(arr, target)
              /\ ret = linear_search(arr, target)
    /\ (Returned /\ arr = <<1, 3, 5, 7, 9>> /\ target = 5) => ret = 2
    /\ (Returned /\ arr = <<10>> /\ target = 10) => ret = 0

\* C1's case: a sorted list of three or more, the target once in it, found
\* right of the first midpoint after two iterations
C1_Witness ==
    /\ Returned
    /\ IsSorted(arr)
    /\ Cardinality(Positions(arr, target)) = 1
    /\ Len(arr) >= 3
    /\ iters = 2
    /\ ret = Len(arr) - 1

\* C2: when target does not occur in arr, sorted or not, binary_search
\* returns -1; on the empty sequence it does so without one loop iteration,
\* so without computing a mid or reading an element.
C2_AbsentGivesNotFound ==
    (Returned /\ Positions(arr, target) = {})
        => /\ ret = -1
           /\ arr = <<>> => (iters = 0 /\ mid = -1)

\* C2's case: an unsorted list without the target, given up after iterations
C2_Witness ==
    /\ Returned
    /\ ~IsSorted(arr)
    /\ Positions(arr, target) = {}
    /\ iters >= 2
    /\ ret = -1

\* C3: when arr is sorted ascending and holds target more than once,
\* binary_search raises nothing and returns an index in 0..len(arr)-1 that
\* holds target, never -1.
C3_DuplicatesGiveSomeMatch ==
    (IsSorted(arr) /\ Cardinality(Positions(arr, target)) > 1)
        => /\ pc # "raised"
           /\ Returned => (ret \in 0..(Len(arr) - 1) /\ Elem(arr, ret) = target)

\* C3's case: a sorted list with the target twice or more, and the index
\* returned is not the first one that holds it
C3_Witness ==
    /\ Returned
    /\ IsSorted(arr)
    /\ Cardinality(Positions(arr, target)) > 1
    /\ ret \in Positions(arr, target)
    /\ \E i \in Positions(arr, target) : i < ret

\* C9: binary_search terminates on every finite sequence: an iteration
\* either returns the mid it computed (which holds target) or leaves a
\* strictly narrower, still non-negative width; the loop ends with -1 exactly
\* when low > high; and the iterations of a call never exceed len(arr).
C9_EachIterationNarrows ==
    /\ [][(pc = "loop" /\ low <= high)
              => \/ /\ pc' = "ret"
                    /\ ret' = mid'
                    /\ Elem(arr, mid') = target
                 \/ /\ pc' = "loop"
                    /\ Width(low', high') < Width(low, high)
                    /\ Width(low', high') >= 0]_vars
    /\ [][(pc = "loop" /\ low > high) => (pc' = "ret" /\ ret' = -1)]_vars
    /\ [][(pc = "loop" /\ pc' = "ret" /\ low <= high) => ret' # -1]_vars
    /\ [](pc = "loop" => iters + Width(low, high) <= Len(arr))
    /\ [](iters <= Len(arr))

\* C9's case: an unsorted list of MaxLen elements searched until low > high
C9_Witness ==
    /\ Returned
    /\ ~IsSorted(arr)
    /\ Len(arr) = MaxLen
    /\ iters = 3
    /\ low > high
    /\ ret = -1

\* C10: throughout the loop 0 <= low, high <= len(arr) - 1 and
\* low <= high + 1; each mid computed lies in low..high, so arr[mid] is an
\* element and nothing is raised; and in a sorted arr every position that
\* holds target stays within low..high.
C10_IntervalInvariant ==
    /\ [](pc \in {"loop", "ret"}
              => /\ 0 <= low
                 /\ high <= Len(arr) - 1
                 /\ low <= high + 1)
    /\ [](pc # "raised")
    /\ [][(pc = "loop" /\ low <= high)
              => /\ low <= mid' /\ mid' <= high
                 /\ 0 <= mid' /\ mid' < Len(arr)]_vars
    /\ []((pc \in {"loop", "ret"} /\ IsSorted(arr))
              => \A i \in Positions(arr, target) : low <= i /\ i <= high)

\* C10's case: mid-loop in a sorted list, the interval narrowed from both
\* sides and the target's position still inside it
C10_Witness ==
    /\ pc = "loop"
    /\ IsSorted(arr)
    /\ 0 < low
    /\ high < Len(arr) - 1
    /\ low <= high
    /\ Positions(arr, target) # {}

----------------------------------------------------------------------------
(* Repeated calls, checked under SpecRepeat.                               *)

\* C4: binary_search keeps no state between calls: a call leaves arr and
\* target as they were, and a call with the arguments of the first call
\* returns what the first call returned, whatever was searched in between.
C4_SameArgumentsSameResult ==
    /\ [][(pc \in {"call", "loop"}) => (arr' = arr /\ target' = target)]_vars
    /\ []((Returned /\ first # <<>> /\ arr = first[1].arr
              /\ target = first[1].target)
             => ret = first[1].ret)

\* C4's case: a later call with the first call's arguments has returned, and
\* the first call had left low above 0
C4_Witness ==
    /\ Returned
    /\ first # <<>>
    /\ arr = first[1].arr
    /\ target = first[1].target
    /\ Len(arr) >= 2
    /\ low > 0
    /\ ret = first[1].ret

----------------------------------------------------------------------------
(* Properties of the Run Search handler, checked under Spec.               *)

\* the row the last INSERT added
LastRow(rows) == rows[Len(rows)]

\* C5: the table holds one row per executed search, in insertion order: a
\* step that changes the table appends exactly one row after the rows it
\* held, which stay as they were, and between handlers the number of rows is
\* the number of searches run.
C5_OneRowPerSearchAppended ==
    /\ [][store' # store
              => /\ Len(store') = Len(store) + 1
                 /\ SubSeq(store', 1, Len(store)) = store]_vars
    /\ [](pc = "idle" => Len(store) = nsearch)
    /\ [](Len(store) <= nsearch /\ nsearch <= Len(store) + 1)

\* C5's case: two handlers have run and left two different rows
C5_Witness ==
    /\ pc = "idle"
    /\ nsearch = 2
    /\ Len(store) = 2
    /\ store[1] # store[2]

\* C6: the elapsed time run_app computes, the reading after binary_search
\* returned minus the reading before it was called, is never negative.
C6_ElapsedNeverNegative == exec_time >= 0

\* C7: the row a handler stores describes the search it ran: the method is
\* "Binary Search", list_size is the length of the list searched, target is
\* the target asked for, result_index is what binary_search returned, which
\* is -1 exactly when the target is not in the list and otherwise a position
\* holding it; and the row is written only once that search has returned.
C7_RowDescribesTheSearch ==
    [][store' # store
           => /\ pc = "measured"
              /\ nsearch = Len(store) + 1
              /\ LastRow(store').method = "Binary Search"
              /\ LastRow(store').list_size = Len(sorted_list)
              /\ LastRow(store').target = target
              /\ LastRow(store').result_index = index
              /\ LastRow(store').exec_time = exec_time
              /\ (index = -1) <=> (Positions(sorted_list, target) = {})
              /\ index # -1 => index \in Positions(sorted_list, target)]_vars

\* C7's case: a stored row of a search that found its target past position 0
C7_Witness ==
    /\ pc = "idle"
    /\ Len(store) >= 1
    /\ store[1].list_size = SliderMax
    /\ store[1].result_index >= 1
    /\ store[1].target = target

\* C8: for every size n the slider offers, the generated list has exactly n
\* elements, is strictly increasing, and lies within [-3n, 3n].
C8_GeneratedListShape ==
    pc \in {"generated", "measured"}
        => /\ list_size \in SliderSizes
           /\ Len(sorted_list) = list_size
           /\ StrictlyIncreasing(sorted_list)
           /\ \A i \in 1..Len(sorted_list) :
                  /\ -3 * list_size <= sorted_list[i]
                  /\ sorted_list[i] <= 3 * list_size

\* C8's case: a generated list of the largest size that holds both ends of
\* the range sampled
C8_Witness ==
    /\ pc = "generated"
    /\ list_size = SliderMax
    /\ Len(sorted_list) = SliderMax
    /\ sorted_list[1] = -3 * list_size
    /\ sorted_list[Len(sorted_list)] = 3 * list_size - 1

====
